---- MODULE Spec2Model ----
(***************************************************************************)
(* Model of the BLS labour-market pipeline: collect.py (fetch, normalize,  *)
(* merge, dedup, retention, persist) and app.py (load, year-over-year,     *)
(* view filter, indexed-to-100).                                           *)
(*                                                                         *)
(* Representation.                                                         *)
(*  - A Python string that the code slices or parses (period, year) is a   *)
(*    sequence of one-character strings, so that startswith, [1:] and      *)
(*    int() are computed, not assumed.                                     *)
(*  - A float is [k |-> "fin", n |-> i], [k |-> "inf", n |-> 0] or         *)
(*    [k |-> "nan", n |-> 0]; a quotient of floats is a reduced fraction   *)
(*    [k |-> "rat", num, den], or inf, or nan (pandas' null).              *)
(*  - A pandas Timestamp of a first-of-month date is its month ordinal     *)
(*    year * 12 + (month - 1); NaT is a value of its own.                  *)
(*  - A DataFrame is the sequence of its rows; the CSV file holds rows     *)
(*    whose date is the ISO triple [y, m, d] that to_csv writes.           *)
(*  - The pass-through column periodName is left out.                      *)
(***************************************************************************)
EXTENDS Integers, Sequences, FiniteSets, TLC

VARIABLES
    \* ---- collect.py ----
    file_exists,    \* DATA_FILE.exists()
    store,          \* rows of data/labor_data.csv
    pc,             \* position of collect_data / of the normalize run
    idx,            \* position in the loop over SERIES (collect.py:78)
    new_records,    \* the list new_records (collect.py:77)
    old_df,         \* old_df as read at collect.py:95 (<<>> when no file)
    store_before,   \* history: the file's rows when the run started
    exists_before,  \* history: file_exists when the run started
    runs,           \* number of runs started
    \* ---- normalize_records applied to one list ----
    raw_data,       \* the argument raw_data
    norm_out,       \* what normalize_records did with it
    \* ---- app.py ----
    df,             \* the loaded table with yoy_pct (app.py:107-112)
    time_window,    \* sidebar selectbox
    selected_series,\* sidebar multiselect
    work_df,        \* the filtered subset with indexed_100
    view            \* where the script run ended

vars == <<file_exists, store, pc, idx, new_records, old_df, store_before,
          exists_before, runs, raw_data, norm_out, df, time_window,
          selected_series, work_df, view>>

collectVars == <<file_exists, store, pc, idx, new_records, old_df,
                 store_before, exists_before, runs>>
normVars == <<raw_data, norm_out>>
viewVars == <<df, time_window, selected_series, work_df, view>>

-----------------------------------------------------------------------------
(* Bounds and program constants *)

\* datetime.now().year of the modelled runs
EndYear == 2025
\* largest number of collection runs explored
MaxRuns == 2
\* longest raw_data list given to normalize_records on its own
MaxLen == 2

\* .tail(24)
Retention == 24
\* pct_change(12)
YoYPeriods == 12
\* pd.DateOffset(months=13)
WindowMonths == 13

-----------------------------------------------------------------------------
(* The series catalogue: two of the six entries of SERIES, in the order of *)
(* their series_id (the order sort_values and groupby use).                *)

SeriesIds == <<"CES0000000001", "LNS14000000">>

SeriesName(sid) ==
    IF sid = "CES0000000001" THEN "Total Nonfarm Employment"
    ELSE "Unemployment Rate"

NumSeries == Len(SeriesIds)

-----------------------------------------------------------------------------
(* Strings and numbers *)

Digits == {"0", "1", "2", "3", "4", "5", "6", "7", "8", "9"}

DigitVal(c) ==
    CASE c = "0" -> 0 [] c = "1" -> 1 [] c = "2" -> 2 [] c = "3" -> 3
      [] c = "4" -> 4 [] c = "5" -> 5 [] c = "6" -> 6 [] c = "7" -> 7
      [] c = "8" -> 8 [] c = "9" -> 9

DigitChar(d) ==
    CASE d = 0 -> "0" [] d = 1 -> "1" [] d = 2 -> "2" [] d = 3 -> "3"
      [] d = 4 -> "4" [] d = 5 -> "5" [] d = 6 -> "6" [] d = 7 -> "7"
      [] d = 8 -> "8" [] d = 9 -> "9"

\* int(s) succeeds: s is a non-empty string of decimal digits
IsInt(s) == Len(s) > 0 /\ \A i \in 1..Len(s) : s[i] \in Digits

RECURSIVE ParseInt(_)
\* int(s) for a string of decimal digits
ParseInt(s) ==
    IF Len(s) = 0 THEN 0
    ELSE 10 * ParseInt(SubSeq(s, 1, Len(s) - 1)) + DigitVal(s[Len(s)])

\* str(y) for a four-digit year
YearStr(y) ==
    << DigitChar(y \div 1000), DigitChar((y \div 100) % 10),
       DigitChar((y \div 10) % 10), DigitChar(y % 10) >>

\* "M%02d"
PeriodStr(m) == << "M", DigitChar(m \div 10), DigitChar(m % 10) >>

Fin(n) == [k |-> "fin", n |-> n]
Inf == [k |-> "inf", n |-> 0]
NaN == [k |-> "nan", n |-> 0]

\* a Timestamp: NaT, or the first day of the month with ordinal o
NaT == [nat |-> TRUE, o |-> 0]
Ts(o) == [nat |-> FALSE, o |-> o]

Absent == [tok |-> "none", n |-> 0]

\* float(value_str): "ok" with the float, or the exception it raises
ParseFloat(value_str) ==
    CASE value_str.tok = "num"  -> [ok |-> TRUE, v |-> Fin(value_str.n)]
      [] value_str.tok = "nan"  -> [ok |-> TRUE, v |-> NaN]
      [] value_str.tok = "inf"  -> [ok |-> TRUE, v |-> Inf]
      [] value_str.tok = "bad"  -> [ok |-> FALSE, v |-> NaN]
      [] value_str.tok = "none" -> [ok |-> FALSE, v |-> NaN]

-----------------------------------------------------------------------------
(* normalize_records *)

\* One pass of the loop body on one item: "skip" (continue), "raise"
\* (ValueError from int()), or "keep" with the record appended.
NormalizeItem(series_name, series_id, item) ==
    LET period == item.period
        year == item.year
    IN  IF Len(period) = 0 \/ period[1] # "M" \/ period = PeriodStr(13)
        THEN [res |-> "skip"]
        ELSE IF ~IsInt(Tail(period))
        THEN [res |-> "raise"]
        ELSE LET month_number == ParseInt(Tail(period))
                 parsed == ParseFloat(item.value)
             IN  IF ~parsed.ok
                 THEN [res |-> "skip"]
                 ELSE IF ~IsInt(year)
                 THEN [res |-> "raise"]
                 ELSE [res |-> "keep",
                       rec |-> [series_name |-> series_name,
                                series_id |-> series_id,
                                date |-> [y |-> year, m |-> month_number, d |-> 1],
                                value |-> parsed.v,
                                period |-> period,
                                year |-> ParseInt(year)]]

RECURSIVE NormalizeFrom(_, _, _, _, _)
NormalizeFrom(series_name, series_id, raw, i, records) ==
    IF i > Len(raw) THEN [raised |-> FALSE, records |-> records]
    ELSE LET r == NormalizeItem(series_name, series_id, raw[i])
         IN  CASE r.res = "skip" ->
                    NormalizeFrom(series_name, series_id, raw, i + 1, records)
               [] r.res = "raise" ->
                    [raised |-> TRUE, records |-> records]
               [] r.res = "keep" ->
                    NormalizeFrom(series_name, series_id, raw, i + 1,
                                  Append(records, r.rec))

normalize_records(series_name, series_id, raw) ==
    NormalizeFrom(series_name, series_id, raw, 1, <<>>)

-----------------------------------------------------------------------------
(* DataFrame operations used by collect_data and load_data *)

\* pd.to_datetime(date_str, errors="coerce") on "{year}-{month:02d}-01"
ToDatetime(date_str) ==
    IF Len(date_str.y) = 4 /\ IsInt(date_str.y) /\ date_str.m \in 1..12
    THEN Ts(ParseInt(date_str.y) * 12 + (date_str.m - 1))
    ELSE NaT

\* dropna(subset=["date", "value"])
DropNa(frame) ==
    SelectSeq(frame, LAMBDA r : ~r.date.nat /\ r.value.k # "nan")

GroupOf(frame, sid) == SelectSeq(frame, LAMBDA r : r.series_id = sid)

DatesOf(frame) == { frame[i].date.o : i \in 1..Len(frame) }

MinOf(S) == CHOOSE x \in S : \A y \in S : x <= y
MaxOf(S) == CHOOSE x \in S : \A y \in S : y <= x

RECURSIVE SortByDateFrom(_, _)
SortByDateFrom(g, ds) ==
    IF ds = {} THEN <<>>
    ELSE LET d == MinOf(ds)
         IN  SelectSeq(g, LAMBDA r : r.date.o = d) \o SortByDateFrom(g, ds \ {d})

\* g.sort_values("date"): ascending, rows of equal date in their order
SortByDate(g) == SortByDateFrom(g, DatesOf(g))

RECURSIVE SortValuesFrom(_, _)
SortValuesFrom(frame, i) ==
    IF i > NumSeries THEN <<>>
    ELSE SortByDate(GroupOf(frame, SeriesIds[i])) \o SortValuesFrom(frame, i + 1)

\* sort_values(["series_id", "date"])
SortValues(frame) == SortValuesFrom(frame, 1)

SameKey(a, b) == a.series_id = b.series_id /\ a.date = b.date

RECURSIVE KeepLastFrom(_, _)
KeepLastFrom(frame, i) ==
    IF i > Len(frame) THEN <<>>
    ELSE (IF \E j \in (i + 1)..Len(frame) : SameKey(frame[i], frame[j])
          THEN <<>> ELSE <<frame[i]>>) \o KeepLastFrom(frame, i + 1)

RECURSIVE KeepFirstFrom(_, _)
KeepFirstFrom(frame, i) ==
    IF i > Len(frame) THEN <<>>
    ELSE (IF \E j \in 1..(i - 1) : SameKey(frame[i], frame[j])
          THEN <<>> ELSE <<frame[i]>>) \o KeepFirstFrom(frame, i + 1)

\* the slip keep="first"
DropDuplicatesKeepFirst(frame) == KeepFirstFrom(frame, 1)

\* drop_duplicates(subset=["series_id", "date"], keep="last")
DropDuplicates(frame) == KeepLastFrom(frame, 1)

\* .tail(n)
TailRows(g, n) == IF Len(g) <= n THEN g ELSE SubSeq(g, Len(g) - n + 1, Len(g))

RECURSIVE RetainFrom(_, _)
RetainFrom(frame, i) ==
    IF i > NumSeries THEN <<>>
    ELSE TailRows(SortByDate(GroupOf(frame, SeriesIds[i])), Retention)
         \o RetainFrom(frame, i + 1)

\* the slip of taking tail(24) of the whole table, not of each group
KeepLastMonthsOverall(frame) == TailRows(frame, Retention)

\* groupby("series_id").apply(lambda g: g.sort_values("date").tail(24))
KeepLastMonths(frame) == RetainFrom(frame, 1)

\* to_csv: the date as ISO year-month-day, the value as text
CsvValue(v) ==
    CASE v.k = "fin" -> [tok |-> "num", n |-> v.n]
      [] v.k = "inf" -> [tok |-> "inf", n |-> 0]
      [] v.k = "nan" -> [tok |-> "empty", n |-> 0]

CsvRow(r) ==
    [series_name |-> r.series_name, series_id |-> r.series_id,
     date |-> [y |-> r.date.o \div 12, m |-> (r.date.o % 12) + 1, d |-> 1],
     value |-> CsvValue(r.value), period |-> r.period, year |-> r.year]

ToCsv(frame) == [i \in 1..Len(frame) |-> CsvRow(frame[i])]

\* read_csv(..., parse_dates=["date"])
ReadValue(t) ==
    CASE t.tok = "num" -> Fin(t.n)
      [] t.tok = "inf" -> Inf
      [] OTHER -> NaN

ReadRow(c) ==
    [series_name |-> c.series_name, series_id |-> c.series_id,
     date |-> IF c.date.m \in 1..12 /\ c.date.d = 1
              THEN Ts(c.date.y * 12 + (c.date.m - 1)) ELSE NaT,
     value |-> ReadValue(c.value), period |-> c.period, year |-> c.year]

ReadCsv(rows) == [i \in 1..Len(rows) |-> ReadRow(rows[i])]

-----------------------------------------------------------------------------
(* collect_data, after the loop *)

\* collect.py:86-89
NewFrame(records) ==
    LET dated == [i \in 1..Len(records) |->
                    [records[i] EXCEPT !.date = ToDatetime(records[i].date)]]
    IN  SortValues(DropNa(dated))

\* collect.py:94-98
Combined(exists, rows, new_df) ==
    IF exists THEN ReadCsv(rows) \o new_df ELSE new_df

\* collect.py:100-109
MergeFrames(combined) ==
    KeepLastMonths(SortValues(DropDuplicates(combined)))

\* collect.py:86-111: the rows written by to_csv
StoreAfter(exists, rows, records) ==
    ToCsv(MergeFrames(Combined(exists, rows, NewFrame(records))))

-----------------------------------------------------------------------------
(* What the upstream API may return for one series *)

Num(n) == [tok |-> "num", n |-> n]

\* ordinal of January of start_year = end_year - 2 (collect.py:72-73)
Jan0 == (EndYear - 2) * 12

\* the item of month offset k (from January of start_year) with value text t
Item(k, t) ==
    [period |-> PeriodStr(((Jan0 + k) % 12) + 1),
     year |-> YearStr((Jan0 + k) \div 12),
     value |-> t]

\* one item per month lo..hi, values v, v+1, v, v+1, ...
Window(lo, hi, v) ==
    [i \in 1..(hi - lo + 1) |-> Item(lo + i - 1, Num(v + ((lo + i - 1) % 2)))]

AnnualItem == [Item(11, Num(9)) EXCEPT !.period = PeriodStr(13)]
MonthZeroItem == [Item(0, Num(1)) EXCEPT !.period = PeriodStr(0)]
NoYearItem == [Item(0, Num(1)) EXCEPT !.year = <<>>]

Payloads ==
    { <<>>,
      Window(0, Retention - 1, 1),
      Window(2, Retention + 1, 2),
      Window(0, 0, 1) \o Window(2, YoYPeriods + 2, 1),
      Window(0, Retention - 1, 1) \o << Item(0, Num(0)), AnnualItem >>,
      Window(0, Retention - 1, 1)
          \o << Item(Retention - 1, [tok |-> "nan", n |-> 0]),
                Item(0, [tok |-> "inf", n |-> 0]) >>,
      << MonthZeroItem, Item(1, [tok |-> "nan", n |-> 0]) >>,
      Window(0, 1, 3),
      << NoYearItem >> }

-----------------------------------------------------------------------------
(* collect_data as a process: one step per pass of the series loop, one    *)
(* step for everything after the loop                                      *)

CollectInit ==
    /\ file_exists = FALSE
    /\ store = <<>>
    /\ pc = "idle"
    /\ idx = 1
    /\ new_records = <<>>
    /\ old_df = <<>>
    /\ store_before = <<>>
    /\ exists_before = FALSE
    /\ runs = 0

\* python collect.py is started (collect.py:70-77)
StartRun ==
    /\ pc \in {"idle", "done", "failed"}
    /\ runs < MaxRuns
    /\ pc' = "loop"
    /\ idx' = 1
    /\ new_records' = <<>>
    /\ old_df' = <<>>
    /\ store_before' = store
    /\ exists_before' = file_exists
    /\ runs' = runs + 1
    /\ UNCHANGED <<file_exists, store, normVars, viewVars>>

\* collect.py:80-81: the fetch succeeds and normalize_records returns
FetchOk ==
    /\ pc = "loop"
    /\ idx <= NumSeries
    /\ \E raw \in Payloads :
         LET sid == SeriesIds[idx]
             out == normalize_records(SeriesName(sid), sid, raw)
         IN  /\ ~out.raised
             /\ new_records' = new_records \o out.records
    /\ idx' = idx + 1
    /\ UNCHANGED <<file_exists, store, pc, old_df, store_before,
                   exists_before, runs, normVars, viewVars>>

\* collect.py:25-30: raise_for_status() or the RuntimeError of fetch_series
FetchFail ==
    /\ pc = "loop"
    /\ idx <= NumSeries
    /\ pc' = "failed"
    /\ UNCHANGED <<file_exists, store, idx, new_records, old_df,
                   store_before, exists_before, runs, normVars, viewVars>>

\* collect.py:81: normalize_records raises, collect_data does not catch it
NormalizeRaises ==
    /\ pc = "loop"
    /\ idx <= NumSeries
    /\ \E raw \in Payloads :
         LET sid == SeriesIds[idx]
         IN  normalize_records(SeriesName(sid), sid, raw).raised
    /\ pc' = "failed"
    /\ UNCHANGED <<file_exists, store, idx, new_records, old_df,
                   store_before, exists_before, runs, normVars, viewVars>>

\* collect.py:83-84
RaiseNoRecords ==
    /\ pc = "loop"
    /\ idx > NumSeries
    /\ new_records = <<>>
    /\ pc' = "failed"
    /\ UNCHANGED <<file_exists, store, idx, new_records, old_df,
                   store_before, exists_before, runs, normVars, viewVars>>

\* collect.py:86-111
MergeAndSave ==
    /\ pc = "loop"
    /\ idx > NumSeries
    /\ new_records # <<>>
    /\ old_df' = (IF file_exists THEN ReadCsv(store) ELSE <<>>)
    /\ store' = StoreAfter(file_exists, store, new_records)
    /\ file_exists' = TRUE
    /\ pc' = "done"
    /\ UNCHANGED <<idx, new_records, store_before, exists_before, runs,
                   normVars, viewVars>>

NextCollect ==
    \/ StartRun
    \/ FetchOk
    \/ FetchFail
    \/ NormalizeRaises
    \/ RaiseNoRecords
    \/ MergeAndSave

NormIdle == raw_data = <<>> /\ norm_out = [raised |-> FALSE, records |-> <<>>]

ViewIdle ==
    /\ df = <<>>
    /\ time_window = "Last 12 months"
    /\ selected_series = {}
    /\ work_df = <<>>
    /\ view = "not started"

InitCollect == CollectInit /\ NormIdle /\ ViewIdle

SpecCollect == InitCollect /\ [][NextCollect]_vars

-----------------------------------------------------------------------------
(* normalize_records on its own: every list of at most MaxLen raw items    *)

GoodYear == YearStr(EndYear - 1)

RawPeriods ==
    { PeriodStr(0), PeriodStr(1), PeriodStr(12), PeriodStr(13), PeriodStr(14),
      <<"Q", "0", "1">>, <<"A", "0", "1">>, <<"S", "0", "1">>,
      <<>>, <<"M">>, <<"M", "x">> }

RawYears == { GoodYear, <<>>, <<"2", "0", "x", "4">> }

RawValues ==
    { Num(1), [tok |-> "nan", n |-> 0], [tok |-> "inf", n |-> 0],
      [tok |-> "bad", n |-> 0], Absent }

\* every period with a good year and value, every year and value with "M01"
RawItems ==
    { [period |-> p, year |-> GoodYear, value |-> Num(1)] : p \in RawPeriods }
    \cup { [period |-> PeriodStr(1), year |-> y, value |-> v] :
             y \in RawYears, v \in RawValues }

RawLists == UNION { [1..n -> RawItems] : n \in 0..MaxLen }

InitNorm ==
    /\ CollectInit /\ ViewIdle
    /\ raw_data \in RawLists
    /\ norm_out = [raised |-> FALSE, records |-> <<>>]

\* normalize_records(series_name, series_id, raw_data) returns
NormReturns ==
    /\ pc = "idle"
    /\ LET sid == SeriesIds[1]
           out == normalize_records(SeriesName(sid), sid, raw_data)
       IN  /\ ~out.raised
           /\ norm_out' = out
    /\ pc' = "returned"
    /\ UNCHANGED <<file_exists, store, idx, new_records, old_df, store_before,
                   exists_before, runs, raw_data, viewVars>>

\* normalize_records(series_name, series_id, raw_data) raises ValueError
NormRaises ==
    /\ pc = "idle"
    /\ LET sid == SeriesIds[1]
           out == normalize_records(SeriesName(sid), sid, raw_data)
       IN  /\ out.raised
           /\ norm_out' = out
    /\ pc' = "raised"
    /\ UNCHANGED <<file_exists, store, idx, new_records, old_df, store_before,
                   exists_before, runs, raw_data, viewVars>>

NextNorm ==
    \/ NormReturns
    \/ NormRaises

SpecNorm == InitNorm /\ [][NextNorm]_vars

-----------------------------------------------------------------------------
(* app.py: float arithmetic of the derived columns *)

Abs(x) == IF x < 0 THEN -x ELSE x

RECURSIVE Gcd(_, _)
Gcd(a, b) == IF b = 0 THEN a ELSE Gcd(b, a % b)

\* the quotient num / den (den > 0) as a reduced fraction
Rat(num, den) ==
    LET g == Gcd(Abs(num), den)
    IN  [k |-> "rat", num |-> num \div g, den |-> den \div g]

QInf == [k |-> "inf", num |-> 0, den |-> 0]
QNaN == [k |-> "nan", num |-> 0, den |-> 0]

\* (cur / prev - 1) * 100.0 in IEEE arithmetic, for values >= 0
PctChange(cur, prev) ==
    CASE cur.k = "inf" /\ prev.k = "inf" -> QNaN
      [] cur.k = "inf" -> QInf
      [] prev.k = "inf" -> Rat(-100, 1)
      [] prev.n = 0 -> (IF cur.n = 0 THEN QNaN ELSE QInf)
      [] OTHER -> Rat((cur.n - prev.n) * 100, prev.n)

\* (s / base) * 100.0 in IEEE arithmetic, for values >= 0 and base # 0
Scale100(v, base) ==
    CASE v.k = "inf" /\ base.k = "inf" -> QNaN
      [] v.k = "inf" -> QInf
      [] base.k = "inf" -> Rat(0, 1)
      [] OTHER -> Rat(v.n * 100, base.n)

-----------------------------------------------------------------------------
(* app.py: load_data and the year-over-year column *)

\* app.py:27-33
load_data(rows) == SortValues(DropNa(ReadCsv(rows)))

\* groupby("series_id")["value"].pct_change(12) * 100.0 for row i of a frame
\* sorted by (series_id, date): the row 12 positions earlier in its group
YoYAt(frame, i) ==
    LET j == i - YoYPeriods
    IN  IF j >= 1 /\ frame[j].series_id = frame[i].series_id
        THEN PctChange(frame[i].value, frame[j].value)
        ELSE QNaN

\* app.py:111
WithYoY(frame) ==
    [i \in 1..Len(frame) |->
        [series_name |-> frame[i].series_name, series_id |-> frame[i].series_id,
         date |-> frame[i].date, value |-> frame[i].value,
         yoy_pct |-> YoYAt(frame, i)]]

\* app.py:107-112
LoadedTable(rows) == WithYoY(load_data(rows))

\* app.py:122
SeriesOptions(frame) == { frame[i].series_name : i \in 1..Len(frame) }

-----------------------------------------------------------------------------
(* app.py: the view filter and the indexed column *)

\* app.py:118
LatestOverallDate(frame) == MaxOf(DatesOf(frame))

\* the slip of recomputing pct_change(12) on the filtered subset
ApplyFiltersRecomputingYoY(frame, window, selected) ==
    LET windowed ==
            IF window = "Last 12 months"
            THEN LET cutoff == LatestOverallDate(frame) - WindowMonths
                 IN  SelectSeq(frame, LAMBDA r : r.date.o >= cutoff)
            ELSE frame
    IN  WithYoY(SelectSeq(windowed, LAMBDA r : r.series_name \in selected))

\* the slip of taking the cutoff from the latest date of the selected series
ApplyFiltersCutoffOfSelection(frame, window, selected) ==
    LET chosen == SelectSeq(frame, LAMBDA r : r.series_name \in selected)
    IN  IF window = "Last 12 months"
        THEN LET cutoff == LatestOverallDate(chosen) - WindowMonths
             IN  SelectSeq(chosen, LAMBDA r : r.date.o >= cutoff)
        ELSE chosen

\* app.py:164-171
ApplyFilters(frame, window, selected) ==
    LET windowed ==
            IF window = "Last 12 months"
            THEN LET cutoff == LatestOverallDate(frame) - WindowMonths
                 IN  SelectSeq(frame, LAMBDA r : r.date.o >= cutoff)
            ELSE frame
    IN  SelectSeq(windowed, LAMBDA r : r.series_name \in selected)

\* app.py:36-51, the value computed for row r of df_in: its group is the
\* rows of its series_id sorted by date, base is the first of them
IndexedAt(df_in, r) ==
    LET g == SortByDate(GroupOf(SortValues(df_in), r.series_id))
        base == g[1].value
    IN  IF base = Fin(0) THEN QNaN ELSE Scale100(r.value, base)

\* app.py:178-179
WithIndexed(subset) ==
    LET sorted == SortValues(subset)
    IN  [i \in 1..Len(sorted) |->
            [series_name |-> sorted[i].series_name,
             series_id |-> sorted[i].series_id,
             date |-> sorted[i].date, value |-> sorted[i].value,
             yoy_pct |-> sorted[i].yoy_pct,
             indexed_100 |-> IndexedAt(sorted, sorted[i])]]

-----------------------------------------------------------------------------
(* app.py as a process: one step per run of the script, by where it ends   *)

OkPayloads ==
    { p \in Payloads :
        ~normalize_records(SeriesName(SeriesIds[1]), SeriesIds[1], p).raised }

\* new_records after the loop, when series 1 returned p1 and series 2 p2
RecordsOf(p1, p2) ==
    normalize_records(SeriesName(SeriesIds[1]), SeriesIds[1], p1).records
    \o normalize_records(SeriesName(SeriesIds[2]), SeriesIds[2], p2).records

\* the files a first successful run of collect.py can leave
FirstRunStores ==
    { StoreAfter(FALSE, <<>>, RecordsOf(p1, p2)) :
        <<p1, p2>> \in { q \in OkPayloads \X OkPayloads :
                           RecordsOf(q[1], q[2]) # <<>> } }

Windows == {"Last 12 months", "All data"}

InitView ==
    /\ file_exists = TRUE
    /\ store \in FirstRunStores
    /\ pc = "done"
    /\ idx = 1
    /\ new_records = <<>>
    /\ old_df = <<>>
    /\ store_before = <<>>
    /\ exists_before = FALSE
    /\ runs = 1
    /\ NormIdle
    /\ ViewIdle

\* app.py:139-141: nothing selected, st.stop()
StopEmptySelection ==
    /\ file_exists
    /\ df' = LoadedTable(store)
    /\ time_window' \in Windows
    /\ selected_series' = {}
    /\ work_df' = <<>>
    /\ view' = "empty selection"
    /\ UNCHANGED <<collectVars, normVars>>

\* app.py:173-175: the filters leave no row, st.stop()
StopNoData ==
    /\ file_exists
    /\ \E w \in Windows, sel \in SUBSET SeriesOptions(LoadedTable(store)) :
         /\ sel # {}
         /\ ApplyFilters(LoadedTable(store), w, sel) = <<>>
         /\ time_window' = w
         /\ selected_series' = sel
    /\ df' = LoadedTable(store)
    /\ work_df' = <<>>
    /\ view' = "no data"
    /\ UNCHANGED <<collectVars, normVars>>

\* app.py:163-179: the subset is shown
ShowView ==
    /\ file_exists
    /\ \E w \in Windows, sel \in SUBSET SeriesOptions(LoadedTable(store)) :
         /\ sel # {}
         /\ ApplyFilters(LoadedTable(store), w, sel) # <<>>
         /\ time_window' = w
         /\ selected_series' = sel
         /\ work_df' = WithIndexed(ApplyFilters(LoadedTable(store), w, sel))
    /\ df' = LoadedTable(store)
    /\ view' = "shown"
    /\ UNCHANGED <<collectVars, normVars>>

NextView ==
    \/ StopEmptySelection
    \/ StopNoData
    \/ ShowView

SpecView == InitView /\ [][NextView]_vars

-----------------------------------------------------------------------------
(* Properties *)

StoredFrame == ReadCsv(store)

\* what the merge of the last run received, in arrival order: the rows read
\* from the file, then the rows of new_df
Arrivals == old_df \o NewFrame(new_records)

\* C1: the file holds at most one row per (series_id, date), and after a
\* successful run every stored row is the last row of its key to arrive at
\* the merge (from the file or from this run).
C1_KeepLastWins ==
    /\ \A i, j \in 1..Len(store) :
         i # j => ~(store[i].series_id = store[j].series_id
                    /\ store[i].date = store[j].date)
    /\ pc = "done" =>
         LET arrived == Arrivals
             stored == StoredFrame
         IN  \A i \in 1..Len(stored) :
                LET same == { j \in 1..Len(arrived) :
                                SameKey(arrived[j], stored[i]) }
                IN  /\ same # {}
                    /\ stored[i] = arrived[MaxOf(same)]

\* a second run has revised a stored month and the file carries its value
C1_Witness ==
    /\ pc = "done"
    /\ LET new_df == NewFrame(new_records)
           stored == StoredFrame
       IN  \E a \in 1..Len(old_df), b \in 1..Len(new_df) :
             /\ SameKey(old_df[a], new_df[b])
             /\ old_df[a].value # new_df[b].value
             /\ \E i \in 1..Len(stored) :
                  /\ SameKey(stored[i], new_df[b])
                  /\ stored[i].value = new_df[b].value

ArrivedDates(arrived, sid) == DatesOf(GroupOf(arrived, sid))

LatestDates(D) == { d \in D : Cardinality({ e \in D : e > d }) < Retention }

\* C2: no series has more than 24 rows in the file, and after a successful
\* run the months kept for a series are exactly the (up to) 24 latest months
\* of that series among the rows that arrived at the merge, whatever the
\* other series hold.
C2_Retention ==
    /\ \A s \in 1..NumSeries : Len(GroupOf(store, SeriesIds[s])) <= Retention
    /\ pc = "done" =>
         LET arrived == Arrivals
             stored == StoredFrame
         IN  \A s \in 1..NumSeries :
                LET kept == GroupOf(stored, SeriesIds[s])
                IN  /\ DatesOf(kept) = LatestDates(ArrivedDates(arrived, SeriesIds[s]))
                    /\ Len(kept) = Cardinality(DatesOf(kept))

\* one series lost its oldest months while another, shorter one kept all
C2_Witness ==
    /\ pc = "done"
    /\ LET arrived == Arrivals
       IN  \E s, t \in 1..NumSeries :
             /\ Cardinality(ArrivedDates(arrived, SeriesIds[s])) > Retention
             /\ Cardinality(ArrivedDates(arrived, SeriesIds[t])) \in 1..(Retention - 1)
             /\ Len(GroupOf(store, SeriesIds[s])) = Retention

\* C3, failed runs: a run that ended in an exception left the file as it was
C3_FailedRunLeavesStore ==
    pc = "failed" => store = store_before /\ file_exists = exists_before

\* C3, no partial merge: the file differs from what the run found only
\* after the whole loop and a non-empty new_records
C3_OnlyWholeMerge ==
    (store # store_before \/ file_exists # exists_before)
        => pc = "done" /\ idx > NumSeries /\ new_records # <<>>

\* C3, no empty table: the file, once written, is never an empty table
C3_NeverEmptyTable == file_exists => store # <<>>

\* C3: a failed run leaves the file untouched, the file is replaced only by
\* a merge of all series, and never by an empty table.
C3_AllOrNothing ==
    C3_FailedRunLeavesStore /\ C3_OnlyWholeMerge /\ C3_NeverEmptyTable

UnparseablePeriod(p) == Len(p) = 0 \/ ~IsInt(Tail(p))

BadYearOrPeriod(item) == ~IsInt(item.year) \/ UnparseablePeriod(item.period)

\* C4: normalize_records never raises; an item whose year or period is
\* missing or unparseable is dropped and the rest of the list is normalized
\* as if the item were not there.
C4_BadItemDroppedWithoutRaising ==
    pc \in {"returned", "raised"} =>
        /\ ~norm_out.raised
        /\ norm_out.records =
             normalize_records(SeriesName(SeriesIds[1]), SeriesIds[1],
                 SelectSeq(raw_data, LAMBDA it : ~BadYearOrPeriod(it))).records

MonthlyPeriods == { PeriodStr(m) : m \in 1..12 }

\* C5: every record normalize_records returns comes from a period M01..M12,
\* has a month number in 1..12 and the first day of that month of its year
\* as date; an item of any other period leaves no record.
C5_OnlyMonths1To12 ==
    pc = "returned" =>
        /\ \A i \in 1..Len(norm_out.records) :
             LET r == norm_out.records[i]
             IN  /\ r.period \in MonthlyPeriods
                 /\ r.date.m \in 1..12
                 /\ r.date.d = 1
                 /\ r.date.y = YearStr(r.year)
        /\ \A k \in 1..Len(raw_data) :
             raw_data[k].period \notin MonthlyPeriods =>
                \A i \in 1..Len(norm_out.records) :
                    norm_out.records[i].period # raw_data[k].period

\* C6: no record with a NaN or infinite value is in the output of
\* normalize_records, in new_records, or in the file.
C6_OnlyFiniteValues ==
    /\ \A i \in 1..Len(norm_out.records) : norm_out.records[i].value.k = "fin"
    /\ \A i \in 1..Len(new_records) : new_records[i].value.k = "fin"
    /\ \A i \in 1..Len(store) : store[i].value.tok = "num"

\* the rows of the loaded table of the same series exactly 12 months earlier
YearEarlier(i) ==
    { j \in 1..Len(df) : /\ df[j].series_id = df[i].series_id
                         /\ df[j].date.o = df[i].date.o - 12 }

\* C7: yoy_pct of a loaded row is (value / value 12 months earlier - 1) * 100
\* when the series has a row exactly 12 months earlier, and null otherwise.
C7_YoYIsTwelveMonths ==
    \A i \in 1..Len(df) :
        IF YearEarlier(i) = {}
        THEN df[i].yoy_pct = QNaN
        ELSE \A j \in YearEarlier(i) :
                df[i].yoy_pct = PctChange(df[i].value, df[j].value)

\* C8: every row of the shown subset has the yoy_pct it has in the loaded
\* table, for every window and selection.
C8_YoYUnaffectedByFilter ==
    view = "shown" =>
        \A i \in 1..Len(work_df) :
            \E j \in 1..Len(df) :
                /\ SameKey(df[j], work_df[i])
                /\ df[j].yoy_pct = work_df[i].yoy_pct

\* a windowed view shows a row with a YoY whose lookback row is cut off
C8_Witness ==
    /\ view = "shown"
    /\ time_window = "Last 12 months"
    /\ \E i \in 1..Len(work_df) :
         /\ work_df[i].yoy_pct.k = "rat"
         /\ \A j \in 1..Len(work_df) :
              work_df[j].series_id = work_df[i].series_id
                  => work_df[j].date.o > work_df[i].date.o - YoYPeriods

\* the chronologically first shown row of the series of shown row i
FirstVisible(i) ==
    CHOOSE j \in 1..Len(work_df) :
        /\ work_df[j].series_id = work_df[i].series_id
        /\ \A k \in 1..Len(work_df) :
             work_df[k].series_id = work_df[i].series_id
                 => work_df[j].date.o <= work_df[k].date.o

\* C9: indexed_100 of a shown row is (value / base) * 100 with base the value
\* of the first shown row of its series; that first row is 100 when base is
\* not 0; every row of the series is null when base is 0.
C9_IndexedOnFirstVisible ==
    view = "shown" =>
        \A i \in 1..Len(work_df) :
            LET base == work_df[FirstVisible(i)].value
            IN  IF base = Fin(0)
                THEN work_df[i].indexed_100 = QNaN
                ELSE /\ work_df[i].indexed_100 = Scale100(work_df[i].value, base)
                     /\ work_df[FirstVisible(i)].indexed_100 = Rat(100, 1)

Keys(frame) == { <<frame[i].series_id, frame[i].date>> : i \in 1..Len(frame) }

\* the rows the filter is to keep: of a selected series, and on or after the
\* latest date of the whole table minus 13 months unless all data is shown
Expected ==
    { <<df[i].series_id, df[i].date>> : i \in
        { i \in 1..Len(df) :
            /\ df[i].series_name \in selected_series
            /\ \/ time_window = "All data"
               \/ \A j \in 1..Len(df) :
                    df[i].date.o >= df[j].date.o - WindowMonths } }

\* C10: with nothing selected the script stops with the empty-selection
\* outcome and no subset; otherwise the subset holds exactly the rows of the
\* selected series on or after the cutoff (all their rows for all data).
C10_SelectionAndWindow ==
    /\ view # "not started" /\ selected_series = {}
         => view = "empty selection" /\ work_df = <<>>
    /\ view = "empty selection" => selected_series = {}
    /\ view \in {"shown", "no data"} =>
         /\ selected_series # {}
         /\ Keys(work_df) = Expected
         /\ Len(work_df) = Cardinality(Expected)

\* a windowed view of one of two series leaves out rows of both kinds
C10_Witness ==
    /\ view = "shown"
    /\ time_window = "Last 12 months"
    /\ \E i, j \in 1..Len(df) :
         /\ df[i].series_name \notin selected_series
         /\ df[j].series_name \in selected_series
         /\ <<df[j].series_id, df[j].date>> \notin Keys(work_df)

====
